---- MODULE Spec2Model ----
(***************************************************************************)
(* Model of src/sync.py: the one-way reconciliation of an ICS feed into a  *)
(* remote calendar (sync_to_google) and the occurrence resolver            *)
(* (find_instance_event_id).                                               *)
(*                                                                         *)
(* One run of sync_to_google is a sequence of steps, one per loop          *)
(* iteration of the code; every remote call of a step either succeeds or   *)
(* raises HttpError.  The remote calendar is the set of events the service *)
(* holds: each with its id and the two private properties the code reads   *)
(* and writes (syncMarker, uid).                                           *)
(***************************************************************************)
EXTENDS Integers, Sequences, FiniteSets, TLC

(***************************************************************************)
(* Bounds of the model.                                                    *)
(***************************************************************************)
\* longest feed handed to sync_to_google
MaxFeed == 2
\* number of events the service returns per page of events().list
ServerPageSize == 2
\* number of runs of sync_to_google in a row (specification SpecTwice)
MaxRuns == 2
\* longest answer of events().instances (specification SpecFind)
MaxItems == 2

(***************************************************************************)
(* Values.                                                                 *)
(***************************************************************************)
\* uids the normalizer can produce: str(component.get("uid", "")) may be ""
UIDS == {"", "A", "B"}
\* the private uid property is absent
NoUid == "<absent>"
\* Python's None for a point in time
NoneDt == [kind |-> "none"]
\* Python's None for an occurrence id
NoneId == [series |-> 0, occ |-> 0]

\* abs() of line 192
Abs(x) == IF x < 0 THEN -x ELSE x

\* truthiness of a Python str or None: "" and None are falsy
Truthy(s) == s # NoUid /\ s # ""

(***************************************************************************)
(* Python dicts: insertion-ordered, one value per key.  A dict is the      *)
(* sequence of its items [k, v] in insertion order.                        *)
(***************************************************************************)
DictHas(d, k) == \E i \in 1..Len(d) : d[i].k = k

DictGet(d, k) == d[CHOOSE i \in 1..Len(d) : d[i].k = k].v

DictPut(d, k, v) ==
  IF DictHas(d, k)
    THEN [i \in 1..Len(d) |-> IF d[i].k = k THEN [k |-> k, v |-> v] ELSE d[i]]
    ELSE Append(d, [k |-> k, v |-> v])

DictKeys(d) == {d[i].k : i \in 1..Len(d)}

(***************************************************************************)
(* Points in time.  A date is [kind "date", day]; a datetime is            *)
(* [kind "datetime", t, aware, off]: wall-clock seconds t, and for an      *)
(* aware value its UTC offset off in seconds (utc instant = t - off).      *)
(***************************************************************************)
Date(day) == [kind |-> "date", day |-> day]
DateTime(t, aware, off) == [kind |-> "datetime", t |-> t, aware |-> aware, off |-> off]

SecondsPerDay == 24 * 3600

\* hasattr(dt, "hour")
HasHour(dt) == dt.kind = "datetime"

\* truthiness of event["recurrence_id"]: None is falsy, a date or datetime truthy
IsException(entry) == entry.recurrence_id # NoneDt

\* dt.astimezone(timezone.utc) of an aware datetime
AsUtc(dt) == DateTime(dt.t - dt.off, TRUE, 0)

normalize_datetime_for_comparison(dt) ==
  IF ~HasHour(dt) THEN dt
  ELSE IF ~dt.aware THEN DateTime(dt.t, TRUE, 0)
  ELSE AsUtc(dt)

(***************************************************************************)
(* find_instance_event_id (lines 148-199).  An instance of the answer of   *)
(* events().instances is [id, hasOriginal, originalStartTime, start]; a    *)
(* start is the dict {"date": ..} (TDate, the string "YYYY-MM-DD"),        *)
(* {"dateTime": ..} (TDateTime, an RFC 3339 string: wall-clock seconds t   *)
(* and its offset off, "Z" being offset 0 after line 188's replace) or a   *)
(* dict with neither key (TEmpty).                                         *)
(***************************************************************************)
\* date.isoformat() (line 181), days counted from 1970-01-01
IsoFormat(day) ==
  CASE day = 0 -> "1970-01-01"
    [] day = 1 -> "1970-01-02"
    [] OTHER -> "1970-01-03"

TDate(date) == [kind |-> "date", date |-> date]
TDateTime(t, off) == [kind |-> "dateTime", t |-> t, off |-> off]
TEmpty == [kind |-> "empty"]

\* the tolerance of line 192, in seconds
Tolerance == 120

\* the current start is read even when originalStartTime is there
InstanceStartCurrent(instance) == instance.start

\* line 176: instance.get('originalStartTime', instance.get('start', {}))
InstanceStart(instance) ==
  IF instance.hasOriginal THEN instance.originalStartTime ELSE instance.start

\* lines 188-189: fromisoformat(..).astimezone(timezone.utc), as a UTC instant
InstanceUtc(instance_start) == instance_start.t - instance_start.off

\* the comparison of line 192 with <= in place of <
WithinToleranceLe(instance_utc, target_utc) == Abs(instance_utc - target_utc) <= Tolerance

\* line 192: abs((instance_dt_utc - target_dt).total_seconds()) < 120
WithinTolerance(instance_utc, target_utc) == Abs(instance_utc - target_utc) < Tolerance

\* lines 176-193: the test one instance of the answer goes through
InstanceMatches(instance, original_start_dt) ==
  LET target_dt == normalize_datetime_for_comparison(original_start_dt)
      is_all_day == ~HasHour(original_start_dt)
      instance_start == InstanceStart(instance)
  IN IF is_all_day
       THEN /\ instance_start.kind = "date"
            /\ instance_start.date = IsoFormat(original_start_dt.day)
       ELSE /\ instance_start.kind = "dateTime"
            /\ WithinTolerance(InstanceUtc(instance_start), target_dt.t)

\* lines 175-195: the id of the first instance that matches, else None
RECURSIVE FirstMatch(_, _, _)
FirstMatch(items, original_start_dt, i) ==
  IF i > Len(items) THEN NoneId
  ELSE IF InstanceMatches(items[i], original_start_dt) THEN items[i].id
  ELSE FirstMatch(items, original_start_dt, i + 1)

\* an answer of events().instances: [ok |-> FALSE] is HttpError (lines 197-199)
HttpError == [ok |-> FALSE, items |-> <<>>]
Answer(items) == [ok |-> TRUE, items |-> items]

find_instance_event_id(response, original_start_dt) ==
  IF ~response.ok THEN NoneId ELSE FirstMatch(response.items, original_start_dt, 1)

(***************************************************************************)
(* State.                                                                  *)
(***************************************************************************)
VARIABLES
  remote,              \* the remote calendar: set of events [id, marker, uid]
  nextId,              \* the id the service gives to the next inserted event
  ics_events,          \* the feed handed to sync_to_google
  master_events,       \* dict uid -> position in ics_events of the master entry
  exception_events,    \* positions in ics_events of the exception entries
  existing_events,     \* dict uid -> remote event (the remote index)
  page_token,          \* offset of the next page, 0 for None
  current_uids, created, updated, errors,
  uid_to_google_id,    \* dict uid -> remote id
  exceptions_updated, exceptions_errors, deleted,
  ret,                 \* what sync_to_google returned
  mi, xi, di,          \* positions of the three loops (lines 244, 298, 340)
  pc,                  \* where the run is
  calls,               \* the remote calls of this run, in order
  listed,              \* the events the list calls of this run returned
  runNo, prevRun,      \* runs started so far; feed and outcome of the run before
  f_target, f_response, f_result, f_pc, \* one call of find_instance_event_id
  p_event, p_payload, p_pc  \* one master entry and the payload built from it

findVars == <<f_target, f_response, f_result, f_pc>>
payloadVars == <<p_event, p_payload, p_pc>>
pureVars == <<findVars, payloadVars>>
loopVars == <<mi, xi, di>>
pass1Vars == <<current_uids, created, updated, errors, uid_to_google_id>>
pass2Vars == <<exceptions_updated, exceptions_errors>>
feedVars == <<ics_events, master_events, exception_events>>
indexVars == <<existing_events, page_token>>
remoteVars == <<remote, nextId>>
runVars == <<runNo, prevRun>>
vars == <<remoteVars, feedVars, indexVars, pass1Vars, pass2Vars, deleted, ret,
          loopVars, pc, calls, listed, runVars, pureVars>>

(***************************************************************************)
(* Feeds: what fetch_ics_events can return (lines 107-117), reduced to the *)
(* fields reconciliation branches on.                                      *)
(***************************************************************************)
\* the instant every exception of the feeds overrides, in seconds
T0 == DateTime(1000, TRUE, 0)

Entry(uid, recurrence_id) == [uid |-> uid, recurrence_id |-> recurrence_id]

Entries == {Entry(u, r) : u \in UIDS, r \in {NoneDt, T0}}

Feeds == UNION {[1..n -> Entries] : n \in 0..MaxFeed}

(***************************************************************************)
(* The remote service.                                                     *)
(***************************************************************************)
Event(id, marker, uid) == [id |-> id, marker |-> marker, uid |-> uid]

\* marker-tagged events the calendar may hold before the first run: managed
\* events of uids A and B, a second event tagged A, an event with no uid
\* property and one with an empty uid
TaggedEvents ==
  { Event(1, TRUE, "A"), Event(2, TRUE, "B"), Event(3, TRUE, "A"),
    Event(4, TRUE, NoUid), Event(5, TRUE, "") }

\* an event of another owner of the calendar: no marker, whatever its uid
ForeignEvents == { Event(6, FALSE, "A") }

InitialEvents == TaggedEvents \cup ForeignEvents

FirstFreeId == Cardinality(InitialEvents) + 1

\* events().list(privateExtendedProperty="syncMarker=..."): the tagged events,
\* in id order (lines 219-224)
RECURSIVE SortById(_)
SortById(es) ==
  IF es = {} THEN <<>>
  ELSE LET e == CHOOSE x \in es : \A y \in es : x.id <= y.id
       IN <<e>> \o SortById(es \ {e})

Listing(r) == SortById({e \in r : e.marker})

Min(a, b) == IF a < b THEN a ELSE b

\* one page of the listing and the token of the next one (0: no further page)
PageItems(r, token) ==
  SubSeq(Listing(r), token + 1, Min(token + ServerPageSize, Len(Listing(r))))

NextPageToken(r, token) ==
  IF token + ServerPageSize < Len(Listing(r)) THEN token + ServerPageSize ELSE 0

\* events().insert: a new event carrying the payload's private properties
\* (lines 255-260, 279-282)
RemoteInsert(r, id, uid) == r \cup {Event(id, TRUE, uid)}

\* events().update: the event keeps its id and takes the payload (lines 271-275)
RemoteUpdate(r, id, uid) == {e \in r : e.id # id} \cup {Event(id, TRUE, uid)}

\* events().delete (lines 343-346)
RemoteDelete(r, id) == {e \in r : e.id # id}

\* occurrence occ of the series parent, originally scheduled at instant utc
Instance(parent, occ, utc) ==
  [id |-> [series |-> parent, occ |-> occ], hasOriginal |-> TRUE,
   originalStartTime |-> TDateTime(utc, 0), start |-> TDateTime(utc, 0)]

\* answers of events().instances a run may get for one exception (lines 167-173)
RunAnswers(parent, rec_id) ==
  LET utc == normalize_datetime_for_comparison(rec_id).t
  IN { HttpError, Answer(<<>>),
       Answer(<<Instance(parent, 1, utc + Tolerance), Instance(parent, 2, utc)>>) }

\* one remote call in the log of the run
Call(op, uid, id, occ, src, ok) ==
  [op |-> op, uid |-> uid, id |-> id, occ |-> occ, src |-> src, ok |-> ok]

(***************************************************************************)
(* sync_to_google, lines 201-352.                                          *)
(***************************************************************************)
\* the masters kept as a list: one item per entry, not per uid
RECURSIVE MastersOfNoDedup(_, _, _)
MastersOfNoDedup(feed, i, d) ==
  IF i > Len(feed) THEN d
  ELSE MastersOfNoDedup(feed, i + 1,
                        IF IsException(feed[i]) THEN d
                        ELSE Append(d, [k |-> feed[i].uid, v |-> i]))

\* the masters keyed by uid, the first entry of a uid kept
RECURSIVE MastersOfFirst(_, _, _)
MastersOfFirst(feed, i, d) ==
  IF i > Len(feed) THEN d
  ELSE MastersOfFirst(feed, i + 1,
                      IF IsException(feed[i]) \/ DictHas(d, feed[i].uid) THEN d
                      ELSE DictPut(d, feed[i].uid, i))

\* lines 203-211: the masters, keyed by uid (a later entry replaces an earlier)
RECURSIVE MastersOf(_, _, _)
MastersOf(feed, i, d) ==
  IF i > Len(feed) THEN d
  ELSE MastersOf(feed, i + 1,
                 IF IsException(feed[i]) THEN d ELSE DictPut(d, feed[i].uid, i))

\* lines 203-208: the exception entries, in feed order
RECURSIVE ExceptionsOf(_, _)
ExceptionsOf(feed, i) ==
  IF i > Len(feed) THEN <<>>
  ELSE (IF IsException(feed[i]) THEN <<i>> ELSE <<>>) \o ExceptionsOf(feed, i + 1)

\* every listed event enters the index, whatever its uid property
IndexableAlways(uid) == TRUE

\* line 228: only an event with a non-empty uid property enters the index
Indexable(uid) == Truthy(uid)

\* lines 226-229: the items of one page go into the index
RECURSIVE IndexItems(_, _, _)
IndexItems(d, items, i) ==
  IF i > Len(items) THEN d
  ELSE IndexItems(IF Indexable(items[i].uid) THEN DictPut(d, items[i].uid, items[i]) ELSE d,
                  items, i + 1)

\* a failed list call is swallowed and the page asked for again
OnListErrorContinue == "list"

\* lines 219-224 raise out of sync_to_google; main (366-368) ends the process
OnListError == "aborted"

\* the index is never consulted
InIndexNever(uid) == FALSE

\* line 270: uid in existing_events
InIndex(uid) == DictHas(existing_events, uid)

\* a failed insert or update ends the run
MasterErrorAborts == "aborted"

\* lines 285-287: a failed insert or update is counted and the loop goes on
OnMasterError == "pass1"

\* the ids of pass 1 are dropped: the map holds the index entries only
RECURSIVE IndexIdsOnly(_, _, _)
IndexIdsOnly(d, existing, i) ==
  IF i > Len(existing) THEN <<>>
  ELSE <<[k |-> existing[i].k, v |-> existing[i].v.id]>> \o IndexIdsOnly(d, existing, i + 1)

\* no merge: the map keeps the ids of pass 1 only
MergeNothing(d, existing, i) == d

\* lines 290-292: index entries fill the uids pass 1 left without an id
RECURSIVE MergeIndex(_, _, _)
MergeIndex(d, existing, i) ==
  IF i > Len(existing) THEN d
  ELSE MergeIndex(IF DictHas(d, existing[i].k) THEN d
                  ELSE DictPut(d, existing[i].k, existing[i].v.id),
                  existing, i + 1)

\* the uid of a master is not recorded
SeenNothing(uids, uid) == uids

\* line 245: current_uids.add(uid), before the master is written
Seen(uids, uid) == uids \cup {uid}

\* line 341: uid not in current_uids
IsStale(uid) == uid \notin current_uids

\* lines 348-349: errors after a failed delete (unchanged: it is only printed)
ErrorsAfterDeleteFailure(e) == e

\* a lookup that found no instance is skipped without being counted
AfterLookupMissUncounted(e) == e

\* lines 313-316: exceptions_errors after a lookup that found no instance
AfterLookupMiss(e) == e + 1

\* the errors of the masters alone
TotalErrorsMastersOnly == errors

\* line 351
TotalErrors == errors + exceptions_errors

Init ==
  /\ remote \in {tagged \cup ForeignEvents : tagged \in SUBSET TaggedEvents}
  /\ nextId = FirstFreeId
  /\ ics_events = <<>> /\ master_events = <<>> /\ exception_events = <<>>
  /\ existing_events = <<>> /\ page_token = 0
  /\ current_uids = {} /\ created = 0 /\ updated = 0 /\ errors = 0
  /\ uid_to_google_id = <<>>
  /\ exceptions_updated = 0 /\ exceptions_errors = 0 /\ deleted = 0
  /\ ret = <<>>
  /\ mi = 1 /\ xi = 1 /\ di = 1
  /\ pc = "idle"
  /\ calls = <<>> /\ listed = {}
  /\ runNo = 0 /\ prevRun = [feed |-> <<>>, clean |-> FALSE]
  /\ f_target = NoneDt /\ f_response = HttpError /\ f_result = NoneId /\ f_pc = "off"
  /\ p_event = <<>> /\ p_payload = <<>> /\ p_pc = "off"

\* lines 203-217 on entry to sync_to_google
Enter(feed) ==
  /\ ics_events' = feed
  /\ master_events' = MastersOf(feed, 1, <<>>)
  /\ exception_events' = ExceptionsOf(feed, 1)
  /\ existing_events' = <<>> /\ page_token' = 0
  /\ current_uids' = {} /\ created' = 0 /\ updated' = 0 /\ errors' = 0
  /\ uid_to_google_id' = <<>>
  /\ exceptions_updated' = 0 /\ exceptions_errors' = 0 /\ deleted' = 0
  /\ ret' = <<>>
  /\ mi' = 1 /\ xi' = 1 /\ di' = 1
  /\ pc' = "list"
  /\ calls' = <<>> /\ listed' = {}
  /\ runNo' = runNo + 1
  /\ UNCHANGED <<remoteVars, pureVars>>

\* main calls sync_to_google with the fetched feed (lines 359-362)
StartRun ==
  /\ pc = "idle"
  /\ \E feed \in Feeds : Enter(feed)
  /\ UNCHANGED prevRun

\* one turn of the paging loop (lines 218-233), then lines 236-242
ListPage ==
  /\ pc = "list"
  /\ \E ok \in BOOLEAN :
       /\ calls' = Append(calls, Call("list", NoUid, 0, 0, 0, ok))
       /\ IF ok
            THEN /\ existing_events' =
                      IndexItems(existing_events, PageItems(remote, page_token), 1)
                 /\ page_token' = NextPageToken(remote, page_token)
                 /\ listed' = listed \cup
                      {PageItems(remote, page_token)[i] :
                         i \in 1..Len(PageItems(remote, page_token))}
                 /\ pc' = IF page_token' = 0 THEN "pass1" ELSE "list"
            ELSE /\ pc' = OnListError
                 /\ UNCHANGED <<indexVars, listed>>
  /\ UNCHANGED <<remoteVars, feedVars, pass1Vars, pass2Vars, deleted, ret,
                 loopVars, runVars, pureVars>>

\* one turn of the master loop (lines 244-287)
SyncMaster ==
  /\ pc = "pass1" /\ mi <= Len(master_events)
  /\ LET uid == master_events[mi].k
         src == master_events[mi].v
     IN /\ current_uids' = Seen(current_uids, uid)
        /\ \E ok \in BOOLEAN :
             IF InIndex(uid)
               THEN LET id == DictGet(existing_events, uid).id
                    IN /\ calls' = Append(calls, Call("update", uid, id, 0, src, ok))
                       /\ IF ok
                            THEN /\ remote' = RemoteUpdate(remote, id, uid)
                                 /\ uid_to_google_id' = DictPut(uid_to_google_id, uid, id)
                                 /\ updated' = updated + 1
                                 /\ pc' = "pass1"
                                 /\ UNCHANGED <<errors, created, nextId>>
                            ELSE /\ errors' = errors + 1
                                 /\ pc' = OnMasterError
                                 /\ UNCHANGED <<remoteVars, uid_to_google_id, updated, created>>
               ELSE /\ calls' = Append(calls, Call("insert", uid, nextId, 0, src, ok))
                    /\ IF ok
                         THEN /\ remote' = RemoteInsert(remote, nextId, uid)
                              /\ nextId' = nextId + 1
                              /\ uid_to_google_id' = DictPut(uid_to_google_id, uid, nextId)
                              /\ created' = created + 1
                              /\ pc' = "pass1"
                              /\ UNCHANGED <<errors, updated>>
                         ELSE /\ errors' = errors + 1
                              /\ pc' = OnMasterError
                              /\ UNCHANGED <<remoteVars, uid_to_google_id, updated, created>>
  /\ mi' = mi + 1
  /\ UNCHANGED <<feedVars, indexVars, pass2Vars, deleted, ret, xi, di, listed, runVars, pureVars>>

\* the end of pass 1: lines 289-296
MergeExisting ==
  /\ pc = "pass1" /\ mi > Len(master_events)
  /\ uid_to_google_id' = MergeIndex(uid_to_google_id, existing_events, 1)
  /\ exceptions_updated' = 0 /\ exceptions_errors' = 0
  /\ pc' = "pass2"
  /\ UNCHANGED <<remoteVars, feedVars, indexVars, current_uids, created, updated,
                 errors, deleted, ret, loopVars, calls, listed, runVars, pureVars>>

\* one turn of the exception loop (lines 298-336)
SyncException ==
  /\ pc = "pass2" /\ xi <= Len(exception_events)
  /\ LET src == exception_events[xi]
         uid == ics_events[src].uid
         rec_id == ics_events[src].recurrence_id
     IN IF ~DictHas(uid_to_google_id, uid)
          THEN /\ exceptions_errors' = exceptions_errors + 1
               /\ UNCHANGED <<exceptions_updated, calls>>
          ELSE LET parent_google_id == DictGet(uid_to_google_id, uid)
               IN \E response \in RunAnswers(parent_google_id, rec_id) :
                    LET instance_id == find_instance_event_id(response, rec_id)
                        lookup == Call("instances", uid, parent_google_id,
                                       instance_id.occ, src, response.ok)
                    IN IF instance_id = NoneId
                         THEN /\ exceptions_errors' = AfterLookupMiss(exceptions_errors)
                              /\ calls' = Append(calls, lookup)
                              /\ UNCHANGED exceptions_updated
                         ELSE \E ok \in BOOLEAN :
                                /\ calls' = calls \o
                                     <<lookup, Call("patch", uid, instance_id.series,
                                                    instance_id.occ, src, ok)>>
                                /\ IF ok
                                     THEN /\ exceptions_updated' = exceptions_updated + 1
                                          /\ UNCHANGED exceptions_errors
                                     ELSE /\ exceptions_errors' = exceptions_errors + 1
                                          /\ UNCHANGED exceptions_updated
  /\ xi' = xi + 1
  /\ UNCHANGED <<remoteVars, feedVars, indexVars, pass1Vars, deleted, ret, mi, di,
                 pc, listed, runVars, pureVars>>

\* the end of pass 2: lines 338-339
BeginSweep ==
  /\ pc = "pass2" /\ xi > Len(exception_events)
  /\ deleted' = 0
  /\ pc' = "sweep"
  /\ UNCHANGED <<remoteVars, feedVars, indexVars, pass1Vars, pass2Vars, ret,
                 loopVars, calls, listed, runVars, pureVars>>

\* one turn of the deletion loop (lines 340-349)
DeleteStale ==
  /\ pc = "sweep" /\ di <= Len(existing_events)
  /\ LET uid == existing_events[di].k
         event == existing_events[di].v
     IN IF IsStale(uid)
          THEN \E ok \in BOOLEAN :
                 /\ calls' = Append(calls, Call("delete", uid, event.id, 0, 0, ok))
                 /\ IF ok
                      THEN /\ remote' = RemoteDelete(remote, event.id)
                           /\ deleted' = deleted + 1
                           /\ UNCHANGED errors
                      ELSE /\ errors' = ErrorsAfterDeleteFailure(errors)
                           /\ UNCHANGED <<remote, deleted>>
          ELSE UNCHANGED <<remote, deleted, errors, calls>>
  /\ di' = di + 1
  /\ UNCHANGED <<nextId, feedVars, indexVars, current_uids, created, updated,
                 uid_to_google_id, pass2Vars, ret, mi, xi, pc, listed, runVars, pureVars>>

\* lines 351-352
Return ==
  /\ pc = "sweep" /\ di > Len(existing_events)
  /\ ret' = [created |-> created, updated |-> updated, deleted |-> deleted,
             errors |-> TotalErrors, exceptions_updated |-> exceptions_updated]
  /\ pc' = "done"
  /\ UNCHANGED <<remoteVars, feedVars, indexVars, pass1Vars, pass2Vars, deleted,
                 loopVars, calls, listed, runVars, pureVars>>

Next ==
  \/ StartRun
  \/ ListPage
  \/ SyncMaster
  \/ MergeExisting
  \/ SyncException
  \/ BeginSweep
  \/ DeleteStale
  \/ Return

Spec == Init /\ [][Next]_vars

(***************************************************************************)
(* Runs in a row: the scheduler starts sync_to_google again, on the same   *)
(* feed, against the calendar the run before left (main, lines 354-368).   *)
(***************************************************************************)
AllCallsOk == \A i \in 1..Len(calls) : calls[i].ok

Rerun ==
  /\ pc = "done" /\ runNo < MaxRuns
  /\ prevRun' = [feed |-> ics_events, clean |-> AllCallsOk]
  /\ Enter(ics_events)

NextTwice ==
  \/ Next
  \/ Rerun

SpecTwice == Init /\ [][NextTwice]_vars

(***************************************************************************)
(* Runs in a row on a calendar that starts without any event of this       *)
(* program: each run gets whatever feed was fetched for it (lines          *)
(* 354-362).                                                               *)
(***************************************************************************)
InitClean == Init /\ remote = ForeignEvents

RunAgain ==
  /\ pc \in {"done", "aborted"} /\ runNo < MaxRuns
  /\ prevRun' = [feed |-> ics_events, clean |-> AllCallsOk]
  /\ \E feed \in Feeds : Enter(feed)

NextClean ==
  \/ Next
  \/ RunAgain

SpecClean == InitClean /\ [][NextClean]_vars

(***************************************************************************)
(* find_instance_event_id on its own: one call, on any target and any      *)
(* answer of events().instances built from the values below.               *)
(***************************************************************************)
\* seconds east of UTC of the zoned values (Europe/Moscow)
ZoneOffset == 3 * 3600

\* original starts, as distances in seconds from the target instant
FindDeltas == {0 - Tolerance, 1 - Tolerance, Tolerance - 1, Tolerance, Tolerance + 1}

\* the target instant 1000 s into day 0, written naive, in UTC and zoned;
\* and the all-day target day 0
FindTargets ==
  {DateTime(T0.t, FALSE, 0), DateTime(T0.t, TRUE, 0),
   DateTime(T0.t + ZoneOffset, TRUE, ZoneOffset), Date(0)}

\* starts written in UTC and, at the edge of the tolerance, zoned
FindDateTimes ==
  {TDateTime(T0.t + d, 0) : d \in FindDeltas}
    \cup {TDateTime(T0.t + d + ZoneOffset, ZoneOffset) : d \in {Tolerance - 1, Tolerance}}

FindDates == {TDate("1970-01-01"), TDate("1970-01-02")}

\* an instance without originalStartTime, or with one next to a start that
\* falls on the target
FindShapes ==
  {[hasOriginal |-> FALSE, originalStartTime |-> TEmpty, start |-> y] :
     y \in FindDateTimes \cup FindDates}
    \cup {[hasOriginal |-> TRUE, originalStartTime |-> x, start |-> y] :
            x \in FindDateTimes, y \in {TDateTime(T0.t, 0), TDate("1970-01-01")}}
    \cup {[hasOriginal |-> TRUE, originalStartTime |-> x, start |-> TDateTime(T0.t, 0)] :
            x \in FindDates}

\* the i-th instance of an answer is occurrence i of series 1
FindItems(f) ==
  [i \in DOMAIN f |->
     [id |-> [series |-> 1, occ |-> i],
      hasOriginal |-> f[i].hasOriginal,
      originalStartTime |-> f[i].originalStartTime,
      start |-> f[i].start]]

InitFind ==
  /\ remote = {}
  /\ nextId = FirstFreeId
  /\ ics_events = <<>> /\ master_events = <<>> /\ exception_events = <<>>
  /\ existing_events = <<>> /\ page_token = 0
  /\ current_uids = {} /\ created = 0 /\ updated = 0 /\ errors = 0
  /\ uid_to_google_id = <<>>
  /\ exceptions_updated = 0 /\ exceptions_errors = 0 /\ deleted = 0
  /\ ret = <<>>
  /\ mi = 1 /\ xi = 1 /\ di = 1
  /\ pc = "idle"
  /\ calls = <<>> /\ listed = {}
  /\ runNo = 0 /\ prevRun = [feed |-> <<>>, clean |-> FALSE]
  /\ f_target \in FindTargets
  /\ \E n \in 0..MaxItems : \E f \in [1..n -> FindShapes] :
       f_response \in {HttpError, Answer(FindItems(f))}
  /\ f_result = NoneId /\ f_pc = "call"
  /\ p_event = <<>> /\ p_payload = <<>> /\ p_pc = "off"

\* lines 148-199
FindInstance ==
  /\ f_pc = "call"
  /\ f_result' = find_instance_event_id(f_response, f_target)
  /\ f_pc' = "returned"
  /\ UNCHANGED <<remoteVars, feedVars, indexVars, pass1Vars, pass2Vars, deleted, ret,
                 loopVars, pc, calls, listed, runVars, f_target, f_response,
                 payloadVars>>

NextFind == FindInstance

SpecFind == InitFind /\ [][NextFind]_vars

(***************************************************************************)
(* Vocabulary of the properties, read off the feed and the call log        *)
(* rather than off the dicts the code builds.                              *)
(***************************************************************************)
\* uids of the feed's masters (entries without recurrence id)
MasterUids ==
  {ics_events[i].uid : i \in {j \in 1..Len(ics_events) : ics_events[j].recurrence_id = NoneDt}}

\* uids of the feed's exception occurrences
ExceptionUids ==
  {ics_events[i].uid : i \in {j \in 1..Len(ics_events) : ics_events[j].recurrence_id # NoneDt}}

\* uids the listing of this run returned with a non-empty uid property
ListedUids == {e.uid : e \in {x \in listed : x.uid # NoUid /\ x.uid # ""}}

\* positions in the log of the calls of one kind for one uid
CallIdx(op, uid) == {i \in 1..Len(calls) : calls[i].op = op /\ calls[i].uid = uid}

\* positions in the log of the calls of one kind
OpIdx(op) == {i \in 1..Len(calls) : calls[i].op = op}

OkIdx(op) == {i \in OpIdx(op) : calls[i].ok}

FailedIdx(op) == {i \in OpIdx(op) : ~calls[i].ok}

Pass1Over == pc \in {"pass2", "sweep", "done"}

(***************************************************************************)
(* C1: a master uid that is not in the remote index gets exactly one       *)
(* insert and no update in a run; when the insert succeeds the uid maps,   *)
(* after pass 1, to the id the insert returned (the id of the event now    *)
(* carrying that uid), and created counts exactly the successful inserts.  *)
(***************************************************************************)
C1_NewMasterInsertedOnce ==
  Pass1Over =>
    /\ \A uid \in MasterUids \ ListedUids :
         /\ Cardinality(CallIdx("insert", uid)) = 1
         /\ CallIdx("update", uid) = {}
         /\ \A i \in CallIdx("insert", uid) :
              calls[i].ok =>
                /\ DictHas(uid_to_google_id, uid)
                /\ DictGet(uid_to_google_id, uid) = calls[i].id
                /\ Event(calls[i].id, TRUE, uid) \in remote
                /\ calls[i].id \notin {e.id : e \in listed}
    /\ created = Cardinality(OkIdx("insert"))
    /\ \A i \in OpIdx("insert") : calls[i].uid \in MasterUids \ ListedUids

C1_Witness ==
  /\ pc = "done"
  /\ \E uid \in MasterUids \ ListedUids :
       \E i \in CallIdx("insert", uid) : calls[i].ok /\ created = 2
  /\ ListedUids # {}

(***************************************************************************)
(* C2: a master uid that is in the remote index gets exactly one update,   *)
(* addressed to the id the index stores for it, and never an insert,       *)
(* whether the update succeeds or fails.                                   *)
(***************************************************************************)
C2_IndexedMasterUpdatedOnce ==
  Pass1Over =>
    \A uid \in MasterUids \cap ListedUids :
      /\ Cardinality(CallIdx("update", uid)) = 1
      /\ CallIdx("insert", uid) = {}
      /\ \A i \in CallIdx("update", uid) :
           /\ calls[i].id = DictGet(existing_events, uid).id
           /\ \E e \in listed : e.id = calls[i].id /\ e.uid = uid

C2_Witness ==
  /\ pc = "done"
  /\ \E uid \in MasterUids \cap ListedUids :
       \E i \in CallIdx("update", uid) : ~calls[i].ok
  /\ \E uid \in MasterUids \cap ListedUids :
       \E i \in CallIdx("update", uid) : calls[i].ok

(***************************************************************************)
(* C3: at the end of a run, every uid of the remote index that appears     *)
(* nowhere in the feed (on no master and no exception occurrence) got      *)
(* exactly one delete, addressed to its indexed event, and every indexed   *)
(* uid that appears anywhere in the feed got none.                         *)
(***************************************************************************)
C3_DeleteIffAbsentFromFeed ==
  pc = "done" =>
    \A uid \in ListedUids :
      IF uid \in MasterUids \cup ExceptionUids
        THEN CallIdx("delete", uid) = {}
        ELSE /\ Cardinality(CallIdx("delete", uid)) = 1
             /\ \A i \in CallIdx("delete", uid) :
                  calls[i].id = DictGet(existing_events, uid).id

(***************************************************************************)
(* C4: when a run is followed by a second run on the same feed, reading    *)
(* the calendar the first left, and no remote call failed in either, the   *)
(* second run reports created = 0 and deleted = 0.                         *)
(***************************************************************************)
C4_SecondRunCreatesAndDeletesNothing ==
  (/\ pc = "done" /\ runNo = 2
   /\ prevRun.clean /\ prevRun.feed = ics_events /\ AllCallsOk)
    => ret.created = 0 /\ ret.deleted = 0

(***************************************************************************)
(* C5: the index is complete before the first write: once the paging loop  *)
(* is over and nothing has been written yet, the run has listed every      *)
(* marker-tagged event and indexed every one with a non-empty uid; and a   *)
(* failed list call aborts the run with no insert, update, patch or        *)
(* delete issued.                                                          *)
(***************************************************************************)
WriteOps == {"insert", "update", "patch", "delete"}

NoWriteYet == \A i \in 1..Len(calls) : calls[i].op \notin WriteOps

C5_IndexCompleteOrAbort ==
  /\ FailedIdx("list") # {} => pc = "aborted"
  /\ pc \in {"list", "aborted"} => \A i \in 1..Len(calls) : calls[i].op = "list"
  /\ (pc \in {"pass1", "pass2", "sweep", "done"} /\ NoWriteYet) =>
       /\ listed = {e \in remote : e.marker}
       /\ DictKeys(existing_events) = ListedUids
       /\ \A uid \in ListedUids :
            /\ DictGet(existing_events, uid) \in listed
            /\ DictGet(existing_events, uid).uid = uid

C5_Witness ==
  /\ pc = "aborted"
  /\ Len(calls) = 2
  /\ MasterUids # {} /\ ExceptionUids # {}
  /\ ListedUids # {}

(***************************************************************************)
(* C6: a failed insert or update never stops the run: whichever masters    *)
(* fail, every master uid gets exactly one insert-or-update attempt, the   *)
(* error count of the master pass is the number of failed attempts, and    *)
(* every event written by a successful attempt is still there, as written. *)
(***************************************************************************)
MasterCalls == OpIdx("insert") \cup OpIdx("update")

C6_MasterFailuresIsolated ==
  /\ pc = "aborted" => MasterCalls = {}
  /\ pc = "pass1" => Cardinality(MasterCalls) = mi - 1
  /\ pc \in {"pass1", "pass2"} =>
       errors = Cardinality(FailedIdx("insert") \cup FailedIdx("update"))
  /\ Pass1Over =>
       \A uid \in MasterUids :
         Cardinality(CallIdx("insert", uid) \cup CallIdx("update", uid)) = 1
  /\ \A i \in OkIdx("insert") \cup OkIdx("update") :
       Event(calls[i].id, TRUE, calls[i].uid) \in remote

C6_Witness ==
  /\ pc = "done"
  /\ Cardinality(MasterUids) = 2
  /\ ~calls[Min(2, Len(calls))].ok /\ calls[Min(2, Len(calls))].op = "update"
  /\ OkIdx("insert") # {}
  /\ errors = 1

(***************************************************************************)
(* C7: every update and every delete goes to the id of an event the        *)
(* marker-filtered listing of the run returned with a non-empty uid        *)
(* property; an event without such a property (untagged, tagged without    *)
(* uid, or with an empty uid) is never addressed and stays as it is.       *)
(***************************************************************************)
Recoverable(e) == e.marker /\ e.uid # NoUid /\ e.uid # ""

C7_OnlyListedTaggedEventsTouched ==
  [][ /\ \A i \in (Len(calls) + 1)..Len(calls') :
           calls'[i].op \in {"update", "delete"} =>
             /\ \E e \in listed : e.id = calls'[i].id /\ Recoverable(e)
             /\ \A e \in remote : e.id = calls'[i].id => Recoverable(e)
      /\ \A e \in remote : ~Recoverable(e) => e \in remote'
    ]_vars

C7_Witness ==
  /\ pc = "done"
  /\ OkIdx("update") # {} /\ OkIdx("delete") # {}
  /\ "" \in MasterUids
  /\ \E e \in remote : ~e.marker
  /\ \E e \in remote : e.marker /\ e.uid = NoUid
  /\ \E e \in remote : e.marker /\ e.uid = "" /\ e.id < FirstFreeId

(***************************************************************************)
(* C8: every exception entry ends in exactly one of three ways: its uid    *)
(* has no id in uid_to_google_id (no lookup, no patch, one error); its     *)
(* lookup finds nothing, a failed lookup included (no patch, one error);   *)
(* or exactly one patch goes to the occurrence the lookup found (one       *)
(* update, or one error when the patch fails).  The loop never stops       *)
(* early: exceptions_updated + exceptions_errors is the number of          *)
(* exception entries.                                                      *)
(***************************************************************************)
ExceptionEntries == {j \in 1..Len(ics_events) : ics_events[j].recurrence_id # NoneDt}

SrcIdx(op, src) == {i \in OpIdx(op) : calls[i].src = src}

Orphans == {j \in ExceptionEntries : ~DictHas(uid_to_google_id, ics_events[j].uid)}

Unresolved ==
  {j \in ExceptionEntries \ Orphans : \E i \in SrcIdx("instances", j) : calls[i].occ = 0}

C8_ExceptionOutcomes ==
  /\ pc = "pass2" => exceptions_updated + exceptions_errors = xi - 1
  /\ pc \in {"sweep", "done"} =>
       /\ \A j \in Orphans :
            SrcIdx("instances", j) = {} /\ SrcIdx("patch", j) = {}
       /\ \A j \in ExceptionEntries \ Orphans :
            /\ Cardinality(SrcIdx("instances", j)) = 1
            /\ \A i \in SrcIdx("instances", j) :
                 /\ calls[i].id = DictGet(uid_to_google_id, ics_events[j].uid)
                 /\ ~calls[i].ok => calls[i].occ = 0
                 /\ IF calls[i].occ = 0
                      THEN SrcIdx("patch", j) = {}
                      ELSE /\ SrcIdx("patch", j) = {i + 1}
                           /\ calls[i + 1].id = calls[i].id
                           /\ calls[i + 1].occ = calls[i].occ
       /\ exceptions_updated = Cardinality(OkIdx("patch"))
       /\ exceptions_errors =
            Cardinality(Orphans) + Cardinality(Unresolved) + Cardinality(FailedIdx("patch"))
       /\ exceptions_updated + exceptions_errors = Cardinality(ExceptionEntries)

C8_Witness ==
  /\ pc = "done"
  /\ FailedIdx("instances") # {}
  /\ OkIdx("patch") # {}
  /\ exceptions_updated = 1 /\ exceptions_errors = 1

(***************************************************************************)
(* C9: the error count a run returns includes its failed deletes (next to  *)
(* the failed masters and the exception errors), deleted counts only the   *)
(* successful deletes, and a failed delete does not stop the sweep: every  *)
(* indexed uid without a master in the feed gets its delete.               *)
(***************************************************************************)
C9_DeleteFailuresCounted ==
  pc = "done" =>
    /\ ret.errors = Cardinality(FailedIdx("insert") \cup FailedIdx("update"))
                      + exceptions_errors + Cardinality(FailedIdx("delete"))
    /\ ret.deleted = Cardinality(OkIdx("delete"))
    /\ \A uid \in ListedUids \ MasterUids : Cardinality(CallIdx("delete", uid)) = 1

(***************************************************************************)
(* C10: for a timed target, find_instance_event_id returns the id of the   *)
(* first instance of the answer whose original start (originalStartTime    *)
(* when present, else start), taken in UTC, lies strictly less than 120 s  *)
(* from the target taken in UTC (119 s matches, 120 s and 121 s do not),   *)
(* and None when the answer holds no such instance.                        *)
(***************************************************************************)
\* the target as a UTC instant: a naive value is read as UTC
TargetInstant(dt) == IF dt.aware THEN dt.t - dt.off ELSE dt.t

\* the instances of the answer within 119 s of the target
Within119 ==
  {i \in 1..Len(f_response.items) :
     LET it == f_response.items[i]
         st == IF it.hasOriginal THEN it.originalStartTime ELSE it.start
     IN /\ st.kind = "dateTime"
        /\ (st.t - st.off) - TargetInstant(f_target) \in -119..119}

CalendarDate(st) ==
  CASE st.kind = "date" -> st.date
    [] st.kind = "dateTime" -> IsoFormat(st.t \div SecondsPerDay)
    [] OTHER -> "none"

\* the original scheduled start of the i-th instance of the answer
OriginalStart(i) ==
  IF f_response.items[i].hasOriginal
    THEN f_response.items[i].originalStartTime
    ELSE f_response.items[i].start

OnTargetDate ==
  {i \in 1..Len(f_response.items) : CalendarDate(OriginalStart(i)) = IsoFormat(f_target.day)}

C11_AllDayByCalendarDate ==
  (f_pc = "returned" /\ f_target.kind = "date") =>
    IF f_response.ok /\ OnTargetDate # {}
      THEN f_result = f_response.items[CHOOSE i \in OnTargetDate : \A k \in OnTargetDate : i <= k].id
      ELSE f_result = NoneId

(***************************************************************************)
(* C11 as amended: for an all-day target, an instance matches exactly when *)
(* its original start is a date-only value equal to the target date; an    *)
(* original start that carries a time of day never matches, whatever date  *)
(* it falls on, and the current start is not looked at when                *)
(* originalStartTime is present.  The first match's id is returned.        *)
(***************************************************************************)
DateOnTarget ==
  {i \in 1..Len(f_response.items) :
     /\ OriginalStart(i).kind = "date"
     /\ OriginalStart(i).date = IsoFormat(f_target.day)}

C11_AllDayDateValueOnly ==
  (f_pc = "returned" /\ f_target.kind = "date") =>
    IF f_response.ok /\ DateOnTarget # {}
      THEN f_result = f_response.items[CHOOSE i \in DateOnTarget : \A k \in DateOnTarget : i <= k].id
      ELSE f_result = NoneId

C11_Witness ==
  /\ f_pc = "returned" /\ f_target.kind = "date"
  /\ f_response.ok /\ Len(f_response.items) = 2
  /\ f_response.items[1].hasOriginal
  /\ f_response.items[1].originalStartTime.kind = "dateTime"
  /\ CalendarDate(f_response.items[1].originalStartTime) = IsoFormat(f_target.day)
  /\ f_response.items[1].start = TDate(IsoFormat(f_target.day))
  /\ f_response.items[2].hasOriginal
  /\ f_response.items[2].originalStartTime = TDate(IsoFormat(f_target.day))
  /\ f_response.items[2].start.kind = "dateTime"
  /\ f_result = f_response.items[2].id

(***************************************************************************)
(* The recurrence block of a master's payload (lines 128-136, 247-267).    *)
(* A master is [start, rrule, exdate]; a line of the block is              *)
(* [form, rule, value]: "RRULE" with the rule string, "DATE" for           *)
(* EXDATE;VALUE=DATE:%Y%m%d with the day it names, "UTC" for               *)
(* EXDATE:%Y%m%dT%H%M%SZ with the wall-clock seconds it names.             *)
(***************************************************************************)
\* longest exdate list of a master
MaxExdates == 2

\* rrule_str when the component has no RRULE (line 87)
NoRule == "<none>"

RuleLine(rrule) == [form |-> "RRULE", rule |-> rrule, value |-> 0]
ExdateLine(form, value) == [form |-> form, rule |-> "", value |-> value]

\* strftime('%Y%m%d'): the date as written, without any conversion
StrfDay(dt) == IF HasHour(dt) THEN dt.t \div SecondsPerDay ELSE dt.day

\* the Z-suffixed line written from the wall clock, without converting to UTC
format_exdate_unconverted(exdt, is_all_day) ==
  IF is_all_day \/ ~HasHour(exdt)
    THEN ExdateLine("DATE", StrfDay(exdt))
    ELSE ExdateLine("UTC", exdt.t)

\* lines 128-136
format_exdate(exdt, is_all_day) ==
  IF is_all_day \/ ~HasHour(exdt)
    THEN ExdateLine("DATE", StrfDay(exdt))
    ELSE LET utc_dt == IF exdt.aware THEN AsUtc(exdt) ELSE exdt
         IN ExdateLine("UTC", utc_dt.t)

\* lines 247, 263-267: the recurrence key of google_event, when it is set
BuildRecurrence(ics_event) ==
  LET is_all_day == ~HasHour(ics_event.start)
  IN IF ics_event.rrule # NoRule
       THEN [present |-> TRUE,
             lines |-> <<RuleLine(ics_event.rrule)>> \o
                       [i \in 1..Len(ics_event.exdate) |->
                          format_exdate(ics_event.exdate[i], is_all_day)]]
       ELSE [present |-> FALSE, lines |-> <<>>]

\* starts of a master: all-day, zoned and naive
PayloadStarts == {Date(0), DateTime(T0.t + ZoneOffset, TRUE, ZoneOffset), DateTime(T0.t, FALSE, 0)}

\* exception dates in week 2: the day itself, 09:00 and 01:00 zoned (the
\* latter a day earlier in UTC), and 09:00 naive
PayloadExdates ==
  {Date(7),
   DateTime(7 * SecondsPerDay + 9 * 3600, TRUE, ZoneOffset),
   DateTime(7 * SecondsPerDay + 3600, TRUE, ZoneOffset),
   DateTime(7 * SecondsPerDay + 9 * 3600, FALSE, 0)}

PayloadRules == {NoRule, "FREQ=WEEKLY"}

InitPayload ==
  /\ remote = {}
  /\ nextId = FirstFreeId
  /\ ics_events = <<>> /\ master_events = <<>> /\ exception_events = <<>>
  /\ existing_events = <<>> /\ page_token = 0
  /\ current_uids = {} /\ created = 0 /\ updated = 0 /\ errors = 0
  /\ uid_to_google_id = <<>>
  /\ exceptions_updated = 0 /\ exceptions_errors = 0 /\ deleted = 0
  /\ ret = <<>>
  /\ mi = 1 /\ xi = 1 /\ di = 1
  /\ pc = "idle"
  /\ calls = <<>> /\ listed = {}
  /\ runNo = 0 /\ prevRun = [feed |-> <<>>, clean |-> FALSE]
  /\ f_target = NoneDt /\ f_response = HttpError /\ f_result = NoneId /\ f_pc = "off"
  /\ \E start \in PayloadStarts, rrule \in PayloadRules, n \in 0..MaxExdates :
       \E exdate \in [1..n -> PayloadExdates] :
         p_event = [start |-> start, rrule |-> rrule, exdate |-> exdate]
  /\ p_payload = <<>> /\ p_pc = "build"

\* lines 247-267 for one master
BuildPayload ==
  /\ p_pc = "build"
  /\ p_payload' = BuildRecurrence(p_event)
  /\ p_pc' = "built"
  /\ UNCHANGED <<remoteVars, feedVars, indexVars, pass1Vars, pass2Vars, deleted, ret,
                 loopVars, pc, calls, listed, runVars, findVars, p_event>>

NextPayload == BuildPayload

SpecPayload == InitPayload /\ [][NextPayload]_vars

(***************************************************************************)
(* C12 as stated: the payload has a recurrence block exactly when the      *)
(* master has a rule; the block is the RRULE line followed by one EXDATE   *)
(* line per exception date, in order; in an all-day series every EXDATE    *)
(* line has the VALUE=DATE form, in a timed series every EXDATE line has   *)
(* the Z-suffixed form of the instant converted to UTC: the series, not    *)
(* the exception date, decides the form.                                   *)
(***************************************************************************)
\* the instant of a datetime in UTC (a naive one is written as it is); a
\* date stands for its midnight
UtcSeconds(dt) ==
  IF dt.kind = "date" THEN dt.day * SecondsPerDay
  ELSE IF dt.aware THEN dt.t - dt.off ELSE dt.t

BlockShape ==
  /\ p_payload.present <=> p_event.rrule # NoRule
  /\ p_payload.present =>
       /\ Len(p_payload.lines) = 1 + Len(p_event.exdate)
       /\ p_payload.lines[1] = [form |-> "RRULE", rule |-> p_event.rrule, value |-> 0]

C12_ExdateFormBySeries ==
  p_pc = "built" =>
    /\ BlockShape
    /\ p_payload.present =>
         \A i \in 1..Len(p_event.exdate) :
           IF p_event.start.kind = "date"
             THEN p_payload.lines[i + 1].form = "DATE"
             ELSE /\ p_payload.lines[i + 1].form = "UTC"
                  /\ p_payload.lines[i + 1].value = UtcSeconds(p_event.exdate[i])

(***************************************************************************)
(* C12 as amended: block and order as stated; in an all-day series every   *)
(* EXDATE line has the VALUE=DATE form, naming the date as the exception   *)
(* date writes it; in a timed series an exception date that is a date-time *)
(* gives the Z-suffixed form (converted to UTC first when it has a zone,   *)
(* written as it is when naive) and one that is a date-only value gives    *)
(* the VALUE=DATE form: in a timed series the exception date decides.      *)
(***************************************************************************)
WrittenDay(dt) == IF dt.kind = "date" THEN dt.day ELSE dt.t \div SecondsPerDay

C12_ExdateFormBySeriesAndValue ==
  p_pc = "built" =>
    /\ BlockShape
    /\ p_payload.present =>
         \A i \in 1..Len(p_event.exdate) :
           LET exdt == p_event.exdate[i]
               line == p_payload.lines[i + 1]
           IN IF p_event.start.kind = "date" \/ exdt.kind = "date"
                THEN line = [form |-> "DATE", rule |-> "", value |-> WrittenDay(exdt)]
                ELSE line = [form |-> "UTC", rule |-> "", value |-> UtcSeconds(exdt)]

C12_Witness ==
  /\ p_pc = "built" /\ p_payload.present
  /\ p_event.start.kind = "datetime"
  /\ Len(p_event.exdate) = 2
  /\ p_event.exdate[1] = Date(7)
  /\ p_payload.lines[2].form = "DATE"
  /\ p_event.exdate[2] = DateTime(7 * SecondsPerDay + 9 * 3600, TRUE, ZoneOffset)
  /\ p_payload.lines[3] = [form |-> "UTC", rule |-> "", value |-> 7 * SecondsPerDay + 6 * 3600]

(***************************************************************************)
(* C13: in every run all master inserts and updates are issued before the  *)
(* first occurrence lookup or patch, and all lookups and patches before    *)
(* the first delete; an exception whose master was created in this run is  *)
(* looked up against the id that create returned.  With an empty index, a  *)
(* feed of one master A and one exception A, and a lookup that returns no  *)
(* instance, the run ends with created = 1, exceptions_updated = 0, one    *)
(* exception error and no patch.                                           *)
(***************************************************************************)
Phase(op) ==
  CASE op = "list" -> 0
    [] op \in {"insert", "update"} -> 1
    [] op \in {"instances", "patch"} -> 2
    [] OTHER -> 3

PassesInOrder ==
  \A i, j \in 1..Len(calls) : i < j => Phase(calls[i].op) <= Phase(calls[j].op)

\* the exception entries pass 2 has already handled
HandledExceptions ==
  IF pc \in {"pass2", "sweep", "done"}
    THEN {exception_events[k] : k \in 1..(xi - 1)}
    ELSE {}

LookupUsesCreatedId ==
  \A src \in HandledExceptions :
    \A i \in OkIdx("insert") :
      calls[i].uid = ics_events[src].uid =>
        /\ SrcIdx("instances", src) # {}
        /\ \A j \in SrcIdx("instances", src) : calls[j].id = calls[i].id

MasterAndExceptionA ==
  \/ ics_events = <<Entry("A", NoneDt), Entry("A", T0)>>
  \/ ics_events = <<Entry("A", T0), Entry("A", NoneDt)>>

LookupFoundNothing ==
  /\ OpIdx("instances") # {}
  /\ \A j \in OpIdx("instances") : calls[j].occ = 0

C13_PassOrderAndCrossReference ==
  /\ PassesInOrder
  /\ LookupUsesCreatedId
  /\ (pc = "done" /\ existing_events = <<>> /\ MasterAndExceptionA /\ LookupFoundNothing) =>
       /\ ret.created = 1
       /\ ret.exceptions_updated = 0
       /\ exceptions_errors = 1
       /\ OpIdx("patch") = {}

C13_Witness ==
  /\ pc = "done" /\ existing_events = <<>> /\ MasterAndExceptionA /\ LookupFoundNothing
  /\ \E i \in OkIdx("insert") : \E j \in OpIdx("instances") :
       i < j /\ calls[j].id = calls[i].id /\ calls[i].uid = "A"
  /\ ret.created = 1 /\ exceptions_errors = 1

(***************************************************************************)
(* C14: once pass 1 and the merge are over, the keys of uid_to_google_id   *)
(* are exactly the master uids whose insert or update succeeded in this    *)
(* run together with the uids of the remote index; a uid written           *)
(* successfully in this run maps to the id of that call, every other       *)
(* indexed uid maps to the id stored in the index, and a master whose      *)
(* insert failed and that is not indexed has no entry.                     *)
(***************************************************************************)
WrittenOk == {i \in MasterCalls : calls[i].ok}

WrittenUids == {calls[i].uid : i \in WrittenOk}

C14_MergedMap ==
  Pass1Over =>
    /\ DictKeys(uid_to_google_id) = WrittenUids \cup DictKeys(existing_events)
    /\ \A i \in 1..Len(uid_to_google_id) :
         LET uid == uid_to_google_id[i].k
             id == uid_to_google_id[i].v
         IN IF uid \in WrittenUids
              THEN \A c \in WrittenOk : calls[c].uid = uid => id = calls[c].id
              ELSE id = DictGet(existing_events, uid).id
    /\ \A c \in FailedIdx("insert") :
         ~DictHas(existing_events, calls[c].uid) => ~DictHas(uid_to_google_id, calls[c].uid)

C14_Witness ==
  /\ Pass1Over
  /\ \E c \in OkIdx("insert") : DictHas(uid_to_google_id, calls[c].uid)
  /\ \E c \in FailedIdx("update") :
       /\ DictHas(uid_to_google_id, calls[c].uid)
       /\ DictGet(uid_to_google_id, calls[c].uid) = DictGet(existing_events, calls[c].uid).id
  /\ \E uid \in DictKeys(existing_events) :
       uid \notin MasterUids /\ DictHas(uid_to_google_id, uid)

(***************************************************************************)
(* C15: when the feed holds several non-exception entries with one uid,    *)
(* the run issues exactly one insert or update for that uid, built from    *)
(* the last such entry in feed order, and the duplication is not counted   *)
(* as an error; an entry with a recurrence id never enters the master map  *)
(* and never replaces a master.                                            *)
(***************************************************************************)
MasterEntries == {j \in 1..Len(ics_events) : ~IsException(ics_events[j])}

LastMasterEntry(uid) ==
  CHOOSE j \in MasterEntries :
    /\ ics_events[j].uid = uid
    /\ \A k \in MasterEntries : ics_events[k].uid = uid => k <= j

DuplicatedUids ==
  {uid \in MasterUids :
     \E j, k \in MasterEntries : j # k /\ ics_events[j].uid = uid /\ ics_events[k].uid = uid}

C15_LastMasterEntryWins ==
  /\ DictKeys(master_events) = MasterUids
  /\ \A i \in 1..Len(master_events) :
       master_events[i].v = LastMasterEntry(master_events[i].k)
  /\ pc \in {"pass2", "sweep", "done"} =>
       /\ \A uid \in MasterUids :
            /\ Cardinality({c \in MasterCalls : calls[c].uid = uid}) = 1
            /\ \A c \in MasterCalls :
                 calls[c].uid = uid => calls[c].src = LastMasterEntry(uid)
       /\ errors = Cardinality({c \in MasterCalls : ~calls[c].ok})

C15_Witness ==
  /\ pc = "done"
  /\ DuplicatedUids # {}
  /\ \E c \in MasterCalls :
       /\ calls[c].uid \in DuplicatedUids
       /\ calls[c].src = Len(ics_events)
       /\ calls[c].ok
  /\ errors = 0

(***************************************************************************)
(* C16 as stated: the reported error count of a finished run equals the    *)
(* number of masters whose insert or update failed, so created + updated   *)
(* + reported errors equals the number of distinct master uids of the      *)
(* feed; exceptions show only in the exceptions-updated count.             *)
(***************************************************************************)
FailedMasters == {c \in MasterCalls : ~calls[c].ok}

C16_ErrorsCountMastersOnly ==
  pc = "done" =>
    /\ ret.errors = Cardinality(FailedMasters)
    /\ ret.created + ret.updated + ret.errors = Cardinality(MasterUids)

(***************************************************************************)
(* C16 as amended: the reported error count of a finished run equals the   *)
(* number of masters whose insert or update failed plus the number of      *)
(* exception entries that were not patched successfully (orphaned,         *)
(* unresolved or failed patch), so created + updated + reported errors     *)
(* equals the number of distinct master uids plus the number of exception  *)
(* entries minus the reported exceptions-updated count; created and        *)
(* updated count the successful inserts and updates.                       *)
(***************************************************************************)
C16_ErrorsCountMastersAndExceptions ==
  pc = "done" =>
    /\ ret.created = Cardinality(OkIdx("insert"))
    /\ ret.updated = Cardinality(OkIdx("update"))
    /\ ret.exceptions_updated = Cardinality(OkIdx("patch"))
    /\ ret.errors = Cardinality(FailedMasters)
                      + (Cardinality(ExceptionEntries) - Cardinality(OkIdx("patch")))
    /\ ret.created + ret.updated + ret.errors =
         Cardinality(MasterUids) + Cardinality(ExceptionEntries) - ret.exceptions_updated

C16_Witness ==
  /\ pc = "done"
  /\ Cardinality(FailedMasters) = 1
  /\ Cardinality(ExceptionEntries) = 1
  /\ OkIdx("patch") = {}
  /\ ret.errors = 2

(***************************************************************************)
(* C17: a master uid that is in the feed and in the remote index is in     *)
(* current_uids from the moment its update is attempted, so when the       *)
(* update fails the run issues no delete for its remote event, which       *)
(* stays on the calendar.                                                  *)
(***************************************************************************)
C17_FailedUpdateNeverDeletes ==
  \A c \in FailedIdx("update") :
    /\ calls[c].uid \in current_uids
    /\ \A d \in OpIdx("delete") : calls[d].uid # calls[c].uid /\ calls[d].id # calls[c].id
    /\ \E e \in remote : e.id = calls[c].id

C17_Witness ==
  /\ pc = "done"
  /\ OkIdx("delete") # {}
  /\ \E c \in FailedIdx("update") : \E e \in remote : e.id = calls[c].id /\ e.marker

(***************************************************************************)
(* C18: no remote event that was updated in a run, or one of whose         *)
(* occurrences was patched in that run, is deleted in the same run, and    *)
(* each remote id is deleted at most once per run.  Only calls that        *)
(* succeeded are taken as writes and deletes here.                         *)
(***************************************************************************)
WrittenIds == {calls[c].id : c \in OkIdx("update") \cup OkIdx("patch")}

C18_WritesAndDeletesDisjoint ==
  /\ \A d \in OkIdx("delete") : calls[d].id \notin WrittenIds
  /\ \A d, e \in OpIdx("delete") : calls[d].id = calls[e].id => d = e

(***************************************************************************)
(* C19: starting from a calendar with no marker-tagged event, after any    *)
(* sequence of runs, on any feeds and with any per-item failures, the      *)
(* calendar holds at most one marker-tagged event per source uid, and at   *)
(* the end of a failure-free run every marker-tagged event carries a       *)
(* master uid of that run's feed.                                          *)
(***************************************************************************)
Managed == {e \in remote : e.marker}

C19_NoDuplicateManagedEvents ==
  /\ \A e1, e2 \in Managed : e1.uid = e2.uid => e1 = e2
  /\ (pc = "done" /\ AllCallsOk) => \A e \in Managed : e.uid \in MasterUids

====
